---- MODULE Spec2Model ----
(***************************************************************************)
(* State-machine model of the job-seeker portal in src/main.py: the two    *)
(* tables (users, applications), the request handlers, the listing fetcher *)
(* and the funnel computation.                                             *)
(*                                                                         *)
(* Strings the code inspects character by character (role, job titles, the *)
(* work-experience entries) are sequences of one-character strings; the    *)
(* strings it only stores or compares (name, email, password) are opaque.  *)
(* signup and auto_apply read the store, work in memory and commit later:  *)
(* each is split at its commit, which is where other requests interleave.  *)
(* The requests waiting at their commit are kept as bags of sessions.      *)
(***************************************************************************)
EXTENDS Integers, Sequences, FiniteSets, Bags, TLC

\* ------------------------------------------------------------------ bounds

NProcs == 2         \* requests served concurrently
MaxUsers == 2       \* rows of the users table
MaxApps == 3        \* rows of the applications table
MaxCount == 5       \* largest counter value drawn for the funnel
MaxJobs == 46       \* longest list the remote source returns
MaxPeriod == 3      \* spacing of the second title in a remote list
MaxEntries == 2     \* work-experience entries submitted per group

\* -------------------------------------------------------- program constants

ResultCap == 30     \* [:30]
Percent == 100      \* funnel scale

None == "None"
NoneStr == <<"None">>     \* None in a field that otherwise holds characters
NoFile == ""              \* no file part, or a file part with an empty filename
Ids == 1 .. (MaxUsers + 1)
Emails == {"ann@x.io", "bob@x.io"}
Passwords == {"pw1", "pw2"}      \* what login submits
SignupPasswords == {"pw1"}       \* what signup submits
Salts == {"s1"}
DefaultImage == <<"static/uploads/profile_pics/", "default.jpg">>

Min(a, b) == IF a <= b THEN a ELSE b

\* ------------------------------------------------------- Python primitives

\* max(a, b)
PyMaxFirst(a, b) == a
PyMax(a, b) == IF a >= b THEN a ELSE b

\* int(n / d) for integers n and d > 0: true division, truncated toward zero.
\* (n / d is a double; for |n| < 2^53 its truncation is that of the exact quotient.)
PyIntDiv(n, d) == IF n >= 0 THEN n \div d ELSE -((-n) \div d)

\* str.lower()
LowerChar(c) == CASE c = "A" -> "a" [] c = "B" -> "b" [] OTHER -> c
Lower(s) == [i \in 1 .. Len(s) |-> LowerChar(s[i])]

IsSpace(c) == c = " "

\* str.split(): the maximal runs of non-whitespace characters, in order.
RECURSIVE SplitFrom(_, _, _, _)
SplitFrom(s, i, cur, acc) ==
    IF i > Len(s) THEN (IF cur = <<>> THEN acc ELSE Append(acc, cur))
    ELSE IF IsSpace(s[i])
         THEN SplitFrom(s, i + 1, <<>>, IF cur = <<>> THEN acc ELSE Append(acc, cur))
         ELSE SplitFrom(s, i + 1, Append(cur, s[i]), acc)
Split(s) == SplitFrom(s, 1, <<>>, <<>>)

\* needle in hay
Contains(hay, needle) ==
    \E o \in 0 .. (Len(hay) - Len(needle)) : SubSeq(hay, o + 1, o + Len(needle)) = needle

\* seq[:n]
TakeAll(s, n) == s
Take(s, n) == SubSeq(s, 1, Min(n, Len(s)))

\* sep.join(list)
RECURSIVE Join(_, _)
Join(sep, list) ==
    IF list = <<>> THEN <<>>
    ELSE IF Len(list) = 1 THEN list[1]
    ELSE list[1] \o sep \o Join(sep, Tail(list))

Delimiter == <<"|", "|">>

\* werkzeug.utils.secure_filename: path separators and leading dots are dropped.
SecureFilename(f) == CASE f = "../me.png" -> "me.png" [] OTHER -> f

\* generate_password_hash / check_password_hash: a salted one-way digest, kept
\* with its salt; verification recomputes the digest with the stored salt.
Digest(salt, password) == <<"digest", salt, password>>
GeneratePasswordHash(password, salt) == [salt |-> salt, digest |-> Digest(salt, password)]
CheckAnyPassword(pwhash, password) == TRUE
CheckPasswordHash(pwhash, password) == pwhash.digest = Digest(pwhash.salt, password)


\* ------------------------------------------------------------------ schema

\* class User: a row as signup inserts it (column defaults applied at INSERT).
NewUser(id, name, email, pwhash) ==
    [id |-> id, name |-> name, email |-> email, password |-> pwhash,
     role |-> NoneStr, address |-> None, linkdin |-> None, about |-> None,
     title |-> NoneStr, company |-> NoneStr, desc |-> NoneStr,
     resume |-> NoneStr, image |-> DefaultImage,
     apply |-> 0, shortlist |-> 0, interview |-> 0, reject |-> 0]

\* class Application
NewApplication(id, listing, user_id) ==
    [id |-> id, job_title |-> listing.title, company |-> listing.company,
     job_url |-> listing.job, user_id |-> user_id]

\* The attributes editprofile assigns.
EditedFields == {"name", "role", "address", "linkdin", "about",
                 "title", "company", "desc", "image", "resume"}

\* ------------------------------------------------------------------- state

VARIABLES
    users,      \* table users, in id order
    apps,       \* table applications, in id order
    signing,    \* the signups waiting at their commit: a bag of sessions
    applying,   \* the auto_applys waiting at their commit: a bag of sessions
    last,       \* the last request served, with its response
    remote,     \* the postings the remote job board currently returns
    forms,      \* the profile forms clients submit
    listings    \* the listing data clients apply with

vars == <<users, apps, signing, applying, last, remote, forms, listings>>

NoFunnel == [ok |-> TRUE, applied |-> 0, shortlisted |-> 0, interview |-> 0]
NoListing == [title |-> None, company |-> None, job |-> None]
NoForm == [name |-> None, role |-> NoneStr, address |-> None, linkedin |-> None,
           about |-> None, titles |-> <<>>, companies |-> <<>>, descs |-> <<>>,
           photo |-> NoFile, resume |-> NoFile]
NoLast ==
    [handler |-> "none", method |-> "GET", id |-> 0,
     email |-> None, password |-> None, form |-> NoForm, listing |-> NoListing,
     outcome |-> "none", target |-> 0, error |-> None,
     jobs |-> <<>>, outbound |-> FALSE, rows |-> <<>>, funnel |-> NoFunnel]

\* A request served and the class of its response.
Exchange(handler, method, id, outcome) ==
    [NoLast EXCEPT !.handler = handler, !.method = method, !.id = id,
                   !.outcome = outcome]

\* ------------------------------------------------------------- store access

UserIds(tbl) == {tbl[i].id : i \in 1 .. Len(tbl)}

\* User.query.filter_by(email=email).first(): index of the row, 0 for None.
FirstByEmailNone(tbl, email) == 0
FirstByEmail(tbl, email) ==
    LET hits == {i \in 1 .. Len(tbl) : tbl[i].email = email}
    IN IF hits = {} THEN 0 ELSE CHOOSE i \in hits : \A j \in hits : i <= j

\* User.query.get_or_404(id): index of the row, 0 when it aborts with 404.
GetOrFirst(tbl, id) == IF Len(tbl) > 0 THEN 1 ELSE 0
GetOr404(tbl, id) ==
    LET hits == {i \in 1 .. Len(tbl) : tbl[i].id = id}
    IN IF hits = {} THEN 0 ELSE CHOOSE i \in hits : TRUE

\* unique=True on users.email: the INSERT raises IntegrityError.
NoUniqueConstraint(tbl, email) == FALSE
UniqueViolation(tbl, email) == \E i \in 1 .. Len(tbl) : tbl[i].email = email

\* Application.query.filter_by(user_id=id).all()
ApplicationsOf(tbl, id) == SelectSeq(tbl, LAMBDA a : a.user_id = id)

\* ----------------------------------------------------------------- helpers

\* not role
RoleUnset(role) == role = NoneStr \/ role = <<>>

Keywords(role) == Split(Lower(role))

\* any(k in job["title"].lower() for k in keywords)
JobMatches(job, keywords) ==
    \E i \in 1 .. Len(keywords) : Contains(Lower(job.title), keywords[i])

\* fetch_remotive_jobs(role); reply is what the outbound GET returns, or a failure.
FetchRemotiveJobs(role, reply) ==
    IF RoleUnset(role)
    THEN [raised |-> FALSE, outbound |-> FALSE, jobs |-> <<>>]
    ELSE IF ~reply.ok
    THEN [raised |-> TRUE, outbound |-> TRUE, jobs |-> <<>>]
    ELSE [raised |-> FALSE, outbound |-> TRUE,
          jobs |-> Take(SelectSeq(reply.jobs,
                                  LAMBDA job : JobMatches(job, Keywords(role))),
                        ResultCap)]

\* The funnel of the applications view; ok is FALSE where the division raises
\* ZeroDivisionError.
Funnel(user) ==
    LET applied == PyMax(user.apply, 1)
    IN IF applied = 0
       THEN [NoFunnel EXCEPT !.ok = FALSE]
       ELSE [ok |-> TRUE,
             applied |-> Percent,
             shortlisted |-> PyIntDiv(user.shortlist * Percent, applied),
             interview |-> PyIntDiv(user.interview * Percent, applied)]

\* user.apply += 1: the session adds one to the value it loaded and the UPDATE
\* writes the result, whatever the row holds by then (stored).
IncrementTwice(loaded, stored) == loaded + 2
IncrementStored(loaded, stored) == stored + 1
Increment(loaded, stored) == loaded + 1

\* The attribute values editprofile assigns from the form; row is the loaded
\* user (image and resume are assigned only when a file came).
Assigned(form, row) ==
    [name |-> form.name, role |-> form.role, address |-> form.address,
     linkdin |-> form.linkedin, about |-> form.about,
     title |-> Join(Delimiter, form.titles),
     company |-> Join(Delimiter, form.companies),
     desc |-> Join(Delimiter, form.descs),
     image |-> IF form.photo # NoFile
               THEN <<"static/uploads/profile_pics/", SecureFilename(form.photo)>>
               ELSE row.image,
     resume |-> IF form.resume # NoFile
                THEN <<"static/uploads/resume/", SecureFilename(form.resume)>>
                ELSE row.resume]

\* The UPDATE editprofile's commit flushes: the assigned columns, no other.
Flushed(row, new) ==
    [f \in DOMAIN row |-> IF f \in EditedFields THEN new[f] ELSE row[f]]


\* ---------------------------------------------------------------- handlers

One(session) == SetToBag({session})

InFlight == BagCardinality(signing) + BagCardinality(applying)

\* The server takes a new request.
Free == InFlight < NProcs

\* A handler that ends without having touched the store.
Respond(exchange) ==
    /\ last' = exchange
    /\ UNCHANGED <<users, apps, signing, applying, remote, forms, listings>>

\* home
Home ==
    /\ Free
    /\ Respond(Exchange("home", "GET", 0, "page"))

\* signup, up to the INSERT: the lookup by email, the rejection, the new object
SignupCheck(name, email, password, salt) ==
    /\ Free
    /\ IF FirstByEmail(users, email) # 0
       THEN Respond([Exchange("signup", "POST", 0, "form_error") EXCEPT
                        !.email = email, !.password = password,
                        !.error = "Email already registered. Please log in."])
       ELSE /\ signing' = signing (+) One([password |-> password,
                                           user |-> NewUser(0, name, email,
                                              GeneratePasswordHash(password, salt))])
            /\ UNCHANGED <<users, apps, applying, last, remote, forms, listings>>

\* signup, db.session.add + commit: the row, or IntegrityError and the rollback
SignupCommit(s) ==
    /\ BagIn(s, signing)
    /\ LET echo(outcome) == [Exchange("signup", "POST", 0, outcome) EXCEPT
                                !.email = s.user.email, !.password = s.password]
       IN IF UniqueViolation(users, s.user.email)
          THEN /\ last' = [echo("form_error") EXCEPT !.error = "Email already exists."]
               /\ UNCHANGED users
          ELSE /\ Len(users) < MaxUsers
               /\ users' = Append(users, [s.user EXCEPT !.id = Len(users) + 1])
               /\ last' = echo("redirect_login")
    /\ signing' = signing (-) One(s)
    /\ UNCHANGED <<apps, applying, remote, forms, listings>>

\* login, GET
LoginGet ==
    /\ Free
    /\ Respond(Exchange("login", "GET", 0, "login_form"))

\* login, POST
LoginPost(email, password) ==
    /\ Free
    /\ LET i == FirstByEmail(users, email)
           echo(outcome) == [Exchange("login", "POST", 0, outcome) EXCEPT
                                !.email = email, !.password = password]
       IN IF i # 0 /\ CheckPasswordHash(users[i].password, password)
          THEN Respond([echo("redirect_dashboard") EXCEPT !.target = users[i].id])
          ELSE Respond(echo("login_form"))

\* dashboard; up says whether the outbound call, if made, succeeds
Dashboard(id, up) ==
    /\ Free
    /\ LET i == GetOr404(users, id)
       IN IF i = 0
          THEN Respond(Exchange("dashboard", "GET", id, "not_found"))
          ELSE LET r == FetchRemotiveJobs(users[i].role, [ok |-> up, jobs |-> remote])
               IN IF r.raised
                  THEN Respond([Exchange("dashboard", "GET", id, "server_error")
                                   EXCEPT !.outbound = r.outbound])
                  ELSE Respond([Exchange("dashboard", "GET", id, "page")
                                   EXCEPT !.outbound = r.outbound, !.jobs = r.jobs])

\* profile
Profile(id) ==
    /\ Free
    /\ Respond(Exchange("profile", "GET", id,
                        IF GetOr404(users, id) = 0 THEN "not_found" ELSE "page"))

\* editprofile, GET
EditProfileGet(id) ==
    /\ Free
    /\ Respond(Exchange("editprofile", "GET", id,
                        IF GetOr404(users, id) = 0 THEN "not_found" ELSE "page"))

\* editprofile, POST: the load, the assignments and the commit, whose UPDATE
\* writes the assigned columns only; name is NOT NULL, so a missing name raises
\* IntegrityError at the commit, which nothing catches
EditProfilePost(id, form) ==
    /\ Free
    /\ LET i == GetOr404(users, id)
           echo(outcome) == [Exchange("editprofile", "POST", id, outcome)
                                EXCEPT !.form = form]
       IN IF i = 0
          THEN Respond(echo("not_found"))
          ELSE IF form.name = None
          THEN Respond(echo("server_error"))
          ELSE /\ users' = [users EXCEPT ![i] = Flushed(users[i], Assigned(form, users[i]))]
               /\ last' = [echo("redirect_profile") EXCEPT !.target = id]
               /\ UNCHANGED <<apps, signing, applying, remote, forms, listings>>

\* auto_apply, up to the commit: the load, the new Application, the in-memory += 1
AutoApplyLoad(id, listing) ==
    /\ Free
    /\ LET i == GetOr404(users, id)
       IN IF i = 0
          THEN Respond([Exchange("auto_apply", "GET", id, "not_found")
                           EXCEPT !.listing = listing])
          ELSE /\ Len(apps) + BagCardinality(applying) < MaxApps
               /\ applying' = applying (+) One([id |-> id, listing |-> listing,
                                                loaded |-> users[i].apply,
                                                application |->
                                                   NewApplication(0, listing, users[i].id)])
               /\ UNCHANGED <<users, apps, signing, last, remote, forms, listings>>

\* auto_apply, db.session.commit(): the INSERT and the UPDATE of apply, together
AutoApplyCommit(s) ==
    /\ BagIn(s, applying)
    /\ LET i == GetOr404(users, s.id)
       IN /\ apps' = Append(apps, [s.application EXCEPT !.id = Len(apps) + 1])
          /\ users' = [users EXCEPT ![i].apply = Increment(s.loaded, users[i].apply)]
          /\ last' = [Exchange("auto_apply", "GET", s.id, "redirect_applications")
                         EXCEPT !.listing = s.listing, !.target = s.id]
    /\ applying' = applying (-) One(s)
    /\ UNCHANGED <<signing, remote, forms, listings>>

\* applications
Applications(id) ==
    /\ Free
    /\ LET i == GetOr404(users, id)
       IN IF i = 0
          THEN Respond(Exchange("applications", "GET", id, "not_found"))
          ELSE LET funnel == Funnel(users[i])
               IN IF funnel.ok
                  THEN Respond([Exchange("applications", "GET", id, "page")
                                   EXCEPT !.funnel = funnel,
                                          !.rows = ApplicationsOf(apps, id)])
                  ELSE Respond(Exchange("applications", "GET", id, "server_error"))

\* ------------------------------------------------------------------ inputs

Names == {"Ann"}
Listing == [title |-> "Dev", company |-> "Acme", job |-> "https://j/1"]

\* A remote posting; id is its place in the list the remote source returns.
Posting(id, title) == [id |-> id, title |-> title]

RemoteDefault == <<Posting(1, <<"A", "b">>), Posting(2, <<"b">>)>>

FormFull ==
    [name |-> "Ann B", role |-> <<"A">>, address |-> "12 Elm", linkedin |-> "in/ann",
     about |-> "bio", titles |-> << <<"a">>, <<"b">> >>,
     companies |-> << <<"a">>, <<"a">> >>, descs |-> << <<"b">>, <<"a">> >>,
     photo |-> "../me.png", resume |-> NoFile]
FormsDefault == {FormFull, NoForm}

\* What the bounded runs draw job titles, roles and work-experience entries from.
JobTitles == {<<"A", "b">>, <<"b", " ", "a">>, <<"B">>, <<>>}
Roles == {NoneStr, <<>>, <<" ">>, <<"A">>, <<"a", " ", "B">>, <<" ", "b", " ">>,
          <<"a", "b">>}
Entries == {<<>>, <<"a">>, <<"|">>, <<"a", "|">>, <<"|", "a">>, <<"a", "|", "|", "b">>}

\* A remote list of n postings: every period-th title is t2, the others t1.
RemoteList(n, period, t1, t2) ==
    [i \in 1 .. n |-> Posting(i, IF i % period = 0 THEN t2 ELSE t1)]

\* ----------------------------------------------------------- specification

Quiet ==
    /\ signing = EmptyBag
    /\ applying = EmptyBag
    /\ last = NoLast

Init ==
    /\ users = <<>>
    /\ apps = <<>>
    /\ Quiet
    /\ remote = RemoteDefault
    /\ forms = FormsDefault
    /\ listings = {Listing}

\* Requests served concurrently: any request takes its next step.
Next ==
    \/ Home
    \/ \E name \in Names, email \in Emails, password \in SignupPasswords, salt \in Salts :
          SignupCheck(name, email, password, salt)
    \/ \E s \in BagToSet(signing) : SignupCommit(s)
    \/ LoginGet
    \/ \E email \in Emails, password \in Passwords : LoginPost(email, password)
    \/ \E id \in Ids, up \in BOOLEAN : Dashboard(id, up)
    \/ \E id \in Ids : Profile(id)
    \/ \E id \in Ids : EditProfileGet(id)
    \/ \E id \in Ids, form \in forms : EditProfilePost(id, form)
    \/ \E id \in Ids, listing \in listings : AutoApplyLoad(id, listing)
    \/ \E s \in BagToSet(applying) : AutoApplyCommit(s)
    \/ \E id \in Ids : Applications(id)

Spec == Init /\ [][Next]_vars

\* Requests served one after another: each commits before the next starts.
\* Clients apply with a full listing or with every query parameter missing.
InitSeq ==
    /\ users = <<>>
    /\ apps = <<>>
    /\ Quiet
    /\ remote = RemoteDefault
    /\ forms = FormsDefault
    /\ listings = {Listing, NoListing}

Alone == InFlight = 0

NextSeq ==
    \/ Alone /\ Home
    \/ \E name \in Names, email \in Emails, password \in SignupPasswords, salt \in Salts :
          Alone /\ SignupCheck(name, email, password, salt)
    \/ \E s \in BagToSet(signing) : SignupCommit(s)
    \/ Alone /\ LoginGet
    \/ \E email \in Emails, password \in Passwords : Alone /\ LoginPost(email, password)
    \/ \E id \in Ids, up \in BOOLEAN : Alone /\ Dashboard(id, up)
    \/ \E id \in Ids : Alone /\ Profile(id)
    \/ \E id \in Ids : Alone /\ EditProfileGet(id)
    \/ \E id \in Ids, form \in forms : Alone /\ EditProfilePost(id, form)
    \/ \E id \in Ids, listing \in listings : Alone /\ AutoApplyLoad(id, listing)
    \/ \E s \in BagToSet(applying) : AutoApplyCommit(s)
    \/ \E id \in Ids : Alone /\ Applications(id)

SpecSeq == InitSeq /\ [][NextSeq]_vars

\* A user as signup leaves it, for the runs that start from a populated store.
Ann == NewUser(1, "Ann", "ann@x.io", GeneratePasswordHash("pw1", "s1"))

\* The applications view over every combination of counter values.
InitFunnel ==
    /\ \E a \in 0 .. MaxCount, s \in 0 .. MaxCount, i \in 0 .. MaxCount :
          users = <<[Ann EXCEPT !.apply = a, !.shortlist = s, !.interview = i]>>
    /\ apps = <<>>
    /\ Quiet
    /\ remote = RemoteDefault
    /\ forms = FormsDefault
    /\ listings = {Listing}

NextFunnel == \E id \in Ids : Applications(id)

SpecFunnel == InitFunnel /\ [][NextFunnel]_vars

\* The dashboard's listing fetch over roles and remote lists.
InitFetch ==
    /\ \E role \in Roles : users = <<[Ann EXCEPT !.role = role]>>
    /\ \E n \in 0 .. MaxJobs, period \in 1 .. MaxPeriod, t1 \in JobTitles, t2 \in JobTitles :
          remote = RemoteList(n, period, t1, t2)
    /\ apps = <<>>
    /\ Quiet
    /\ forms = FormsDefault
    /\ listings = {Listing}

NextFetch == \E id \in Ids, up \in BOOLEAN : Dashboard(id, up)

SpecFetch == InitFetch /\ [][NextFetch]_vars

\* The profile edit over submitted work-experience groups of equal length.
InitEdit ==
    /\ users = <<Ann>>
    /\ \E k \in 0 .. MaxEntries :
          \E ts \in [1 .. k -> Entries], cs \in [1 .. k -> Entries] :
             forms = {[FormFull EXCEPT !.titles = ts, !.companies = cs,
                                       !.descs = [i \in 1 .. k |-> <<"b">>]]}
    /\ apps = <<>>
    /\ Quiet
    /\ remote = RemoteDefault
    /\ listings = {Listing}

NextEdit ==
    \/ \E id \in Ids : EditProfileGet(id)
    \/ \E id \in Ids, form \in forms : EditProfilePost(id, form)

SpecEdit == InitEdit /\ [][NextEdit]_vars

\* ------------------------------------------------------------- observations

\* A step that only starts a request: it has read the store and waits at its commit.
Started ==
    \/ BagCardinality(signing') > BagCardinality(signing)
    \/ BagCardinality(applying') > BagCardinality(applying)

\* The auto_apply session s commits in this step.
Commits(s) == CopiesIn(s, applying') < CopiesIn(s, applying)

AllIdle == InFlight = 0

EmailTaken(tbl, email) == \E i \in 1 .. Len(tbl) : tbl[i].email = email

RowOf(tbl, id) == tbl[CHOOSE i \in 1 .. Len(tbl) : tbl[i].id = id]

\* Number of Application rows of a user.
RowCount(tbl, id) == Cardinality({i \in 1 .. Len(tbl) : tbl[i].user_id = id})

Counters == {"apply", "shortlist", "interview", "reject"}

IdScoped == {"dashboard", "profile", "editprofile", "auto_apply", "applications"}

\* What the caller sees of an exchange.
Response(x) ==
    [outcome |-> x.outcome, target |-> x.target, error |-> x.error,
     jobs |-> x.jobs, rows |-> x.rows, funnel |-> x.funnel]

LoginFormResponse ==
    [outcome |-> "login_form", target |-> 0, error |-> None,
     jobs |-> <<>>, rows |-> <<>>, funnel |-> NoFunnel]

\* The stored hash is one generate_password_hash gives for this password.
HashOf(pwhash, password) ==
    \E salt \in Salts : pwhash = GeneratePasswordHash(password, salt)

\* floor(n / d), by its defining inequality
FloorDiv(n, d) == CHOOSE q \in 0 .. n : q * d <= n /\ n < (q + 1) * d

\* The whitespace-delimited tokens of s: its maximal runs without a space.
Tokens(s) ==
    {SubSeq(s, i, j) : <<i, j>> \in
        {ij \in (1 .. Len(s)) \X (1 .. Len(s)) :
            /\ ij[1] <= ij[2]
            /\ \A k \in ij[1] .. ij[2] : s[k] # " "
            /\ (ij[1] = 1 \/ s[ij[1] - 1] = " ")
            /\ (ij[2] = Len(s) \/ s[ij[2] + 1] = " ")}}

CaseFold(s) == [i \in 1 .. Len(s) |-> LowerChar(s[i])]

\* tok occurs in s at some offset
Occurs(tok, s) ==
    \E o \in 0 .. (Len(s) - Len(tok)) : \A k \in 1 .. Len(tok) : s[o + k] = tok[k]

TitleMatchesRole(title, role) ==
    \E tok \in Tokens(CaseFold(role)) : Occurs(tok, CaseFold(title))

\* The places of the remote list whose title matches the role.
MatchingPlaces(role) ==
    {i \in 1 .. Len(remote) : TitleMatchesRole(remote[i].title, role)}

\* The j-th smallest element of a set of places.
NthPlace(places, j) ==
    CHOOSE i \in places : Cardinality({m \in places : m <= i}) = j

\* str.split(sep) as the reader of a stored field applies it: cut at each
\* leftmost occurrence of sep, empty segments kept.
RECURSIVE SplitOnFrom(_, _, _, _, _)
SplitOnFrom(s, sep, i, cur, acc) ==
    IF i > Len(s) THEN Append(acc, cur)
    ELSE IF i + Len(sep) - 1 <= Len(s) /\ SubSeq(s, i, i + Len(sep) - 1) = sep
         THEN SplitOnFrom(s, sep, i + Len(sep), <<>>, Append(acc, cur))
         ELSE SplitOnFrom(s, sep, i + 1, Append(cur, s[i]), acc)
SplitOn(s, sep) == SplitOnFrom(s, sep, 1, <<>>, <<>>)

\* ------------------------------------------------------------------ claims

\* C1: a signup whose email is already that of a row is rejected with a form
\* error and never redirected, and leaves both tables as they were; no signup
\* reaches its INSERT having found its email in the store.
C1_DuplicateSignupRejected ==
    [][/\ \A s \in BagToSet(signing') :
            CopiesIn(s, signing') > CopiesIn(s, signing)
                => ~EmailTaken(users, s.user.email)
       /\ (~Started /\ last'.handler = "signup" /\ EmailTaken(users, last'.email))
            => /\ last'.outcome = "form_error"
               /\ last'.error # None
               /\ users' = users
               /\ apps' = apps]_vars

C1_Witness ==
    /\ last.handler = "signup"
    /\ last.outcome = "form_error"
    /\ last.error = "Email already registered. Please log in."
    /\ EmailTaken(users, last.email)

\* C2: served one after another, every auto_apply of an existing user adds
\* exactly one Application row of that user, carrying the listing verbatim, and
\* exactly one to that user's applied counter, and nothing else changes either;
\* so between requests every user's applied counter equals its row count.
C2_SequentialApplyCounts ==
    /\ [](AllIdle => \A i \in 1 .. Len(users) :
                        users[i].apply = RowCount(apps, users[i].id))
    /\ [][IF \E s \in BagToSet(applying) : Commits(s)
          THEN /\ Len(apps') = Len(apps) + 1
               /\ SubSeq(apps', 1, Len(apps)) = apps
               /\ apps'[Len(apps')].user_id = last'.id
               /\ apps'[Len(apps')].job_title = last'.listing.title
               /\ apps'[Len(apps')].company = last'.listing.company
               /\ apps'[Len(apps')].job_url = last'.listing.job
               /\ \A i \in 1 .. Len(users) :
                     users'[i].apply =
                        users[i].apply + (IF users[i].id = last'.id THEN 1 ELSE 0)
          ELSE /\ apps' = apps
               /\ \A i \in 1 .. Len(users) : users'[i].apply = users[i].apply]_vars

C2_Witness ==
    /\ AllIdle
    /\ Len(apps) >= 2
    /\ apps[1].user_id = apps[2].user_id
    /\ apps[1].job_url = apps[2].job_url
    /\ apps[1].job_title = apps[2].job_title
    /\ RowOf(users, apps[1].user_id).apply = 2
    /\ RowCount(apps, apps[1].user_id) = 2

\* C3: an id-scoped handler called with an id of no row answers not-found and
\* leaves the store and every session as they were; no request waits at a commit
\* for an id of no row.
C3_UnknownIdNotFound ==
    /\ [](\A s \in BagToSet(applying) : s.id \in UserIds(users))
    /\ [][(~Started /\ last'.handler \in IdScoped /\ last'.id \notin UserIds(users))
            => /\ last'.outcome = "not_found"
               /\ UNCHANGED <<users, apps, signing, applying>>]_vars

C3_Witness ==
    /\ last.handler = "auto_apply"
    /\ last.outcome = "not_found"
    /\ last.id \notin UserIds(users)
    /\ Len(users) > 0

\* C4: for non-negative counters the applications view renders the funnel
\* applied = 100, shortlisted = floor(shortlist * 100 / max(apply, 1)),
\* interview = floor(interview * 100 / max(apply, 1)) and never fails on a
\* division by zero; (0, 0, 0) gives 100/0/0 and (4, 1, 0) gives 100/25/0.
C4_Funnel ==
    (last.handler = "applications" /\ last.id \in UserIds(users)) =>
        LET u == RowOf(users, last.id)
            d == IF u.apply = 0 THEN 1 ELSE u.apply
        IN /\ last.outcome = "page"
           /\ last.funnel = [ok |-> TRUE, applied |-> 100,
                             shortlisted |-> FloorDiv(u.shortlist * 100, d),
                             interview |-> FloorDiv(u.interview * 100, d)]
           /\ (u.apply = 0 /\ u.shortlist = 0 /\ u.interview = 0)
                => last.funnel = [ok |-> TRUE, applied |-> 100,
                                  shortlisted |-> 0, interview |-> 0]
           /\ (u.apply = 4 /\ u.shortlist = 1 /\ u.interview = 0)
                => last.funnel = [ok |-> TRUE, applied |-> 100,
                                  shortlisted |-> 25, interview |-> 0]

C4_Witness ==
    /\ last.handler = "applications"
    /\ last.outcome = "page"
    /\ RowOf(users, last.id).apply = 0
    /\ RowOf(users, last.id).shortlist = 3
    /\ last.funnel.shortlisted = 300

\* C5: the dashboard's listings are the first 30 (or all, if fewer) postings of
\* the remote list, in its order, whose lowercased title contains a
\* whitespace-delimited token of the lowercased role; with the role empty or
\* unset the listings are empty and no outbound call is made.
C5_FetchFirstMatches ==
    (last.handler = "dashboard" /\ last.id \in UserIds(users)) =>
        LET role == RowOf(users, last.id).role
            places == MatchingPlaces(role)
        IN IF role = NoneStr \/ role = <<>>
           THEN last.outcome = "page" /\ last.jobs = <<>> /\ ~last.outbound
           ELSE /\ last.outbound
                /\ last.outcome \in {"page", "server_error"}
                /\ last.outcome = "page" =>
                     /\ Len(last.jobs) = Min(Cardinality(places), 30)
                     /\ \A j \in 1 .. Len(last.jobs) :
                           last.jobs[j] = remote[NthPlace(places, j)]

C5_Witness ==
    /\ last.handler = "dashboard"
    /\ last.outcome = "page"
    /\ Len(last.jobs) = 30
    /\ Cardinality(MatchingPlaces(RowOf(users, last.id).role)) > 30
    /\ Cardinality(MatchingPlaces(RowOf(users, last.id).role)) < Len(remote)

\* C6: after an editprofile POST with k entries in each of the three groups
\* (here k >= 1), each stored field splits on "||" into exactly the k submitted
\* entries, in order.
C6_EntriesRecovered ==
    (/\ last.handler = "editprofile"
     /\ last.outcome = "redirect_profile"
     /\ Len(last.form.titles) >= 1) =>
        LET u == RowOf(users, last.id)
        IN /\ SplitOn(u.title, Delimiter) = last.form.titles
           /\ SplitOn(u.company, Delimiter) = last.form.companies
           /\ SplitOn(u.desc, Delimiter) = last.form.descs

\* C7: a login POST redirects to the dashboard of the one row that has the
\* submitted email, and only when the submitted password is the one its hash
\* was generated from; every other login answers the bare login form, the
\* same for an unknown email and for a wrong password; no login changes the
\* store.
C7_Login ==
    /\ []((last.handler = "login" /\ last.method = "POST") =>
            LET hits == {i \in 1 .. Len(users) :
                            /\ users[i].email = last.email
                            /\ HashOf(users[i].password, last.password)}
            IN IF hits # {}
               THEN /\ last.outcome = "redirect_dashboard"
                    /\ \E i \in hits : last.target = users[i].id
               ELSE Response(last) = LoginFormResponse)
    /\ [][(~Started /\ last'.handler = "login")
            => /\ UNCHANGED <<users, apps, signing, applying>>
               /\ last'.method = "GET" => Response(last') = LoginFormResponse]_vars

C7_Witness ==
    /\ last.handler = "login"
    /\ last.method = "POST"
    /\ last.outcome = "login_form"
    /\ EmailTaken(users, last.email)
    /\ Len(users) = 2

\* C8: however concurrent signups interleave, no two rows share an email; a
\* signup ends either with the redirect to login, having inserted the one row
\* of a fresh email, or with a form error, the store as it was and the email
\* taken; it never ends with an unhandled failure.
C8_SignupRace ==
    /\ [](\A i \in 1 .. Len(users) : \A j \in 1 .. Len(users) :
             users[i].email = users[j].email => i = j)
    /\ [][(~Started /\ last'.handler = "signup") =>
            \/ /\ last'.outcome = "redirect_login"
               /\ ~EmailTaken(users, last'.email)
               /\ Len(users') = Len(users) + 1
               /\ SubSeq(users', 1, Len(users)) = users
               /\ users'[Len(users')].email = last'.email
            \/ /\ last'.outcome = "form_error"
               /\ last'.error \in {"Email already registered. Please log in.",
                                   "Email already exists."}
               /\ EmailTaken(users, last'.email)
               /\ users' = users]_vars

C8_Witness ==
    /\ last.handler = "signup"
    /\ last.outcome = "form_error"
    /\ last.error = "Email already exists."
    /\ Cardinality({i \in 1 .. Len(users) : users[i].email = last.email}) = 1

\* C9: an auto_apply commits the counter it loaded plus one: when another apply
\* of the same user has committed since the load, the row is inserted all the
\* same and the counter is left below the user's row count.
C9_LostUpdate ==
    [][\A s \in BagToSet(applying) :
          Commits(s) =>
              /\ RowCount(apps', s.id) = RowCount(apps, s.id) + 1
              /\ RowOf(users', s.id).apply = s.loaded + 1
              /\ s.loaded < RowOf(users, s.id).apply
                   => RowOf(users', s.id).apply < RowCount(apps', s.id)]_vars

C9_Witness ==
    /\ AllIdle
    /\ \E i \in 1 .. Len(users) :
          /\ RowCount(apps, users[i].id) = 2
          /\ users[i].apply = 1

\* C10: the four counters are 0 in the row signup inserts, no step lowers any
\* of them, and the only change to a counter is auto_apply's to apply.
C10_CountersMonotonic ==
    [][/\ Len(users') >= Len(users)
       /\ \A i \in 1 .. Len(users) : \A c \in Counters :
             /\ users'[i][c] >= users[i][c]
             /\ users'[i][c] # users[i][c]
                  => (c = "apply" /\ last'.handler = "auto_apply")
       /\ \A i \in (Len(users) + 1) .. Len(users') : \A c \in Counters :
             users'[i][c] = 0]_vars

====
